---- MODULE Spec2Model ----
(***************************************************************************)
(* Model of run_tests.py, the local test runner of Formatif F1.            *)
(*                                                                         *)
(* main() runs four checks in sequence (check_ssh_key, check_bmp280_script,*)
(* check_neoslider_script, run_hardware_tests), then create_test_summary,  *)
(* then (when every check returned True) update_gitignore and the final    *)
(* marker.  An exception that no handler catches ends the process with     *)
(* exit status 1 (pc = "crashed").                                         *)
(*                                                                         *)
(* Text is modelled as a sequence of tokens: a token is a one-character    *)
(* string or a multi-character word that the code searches for as a whole  *)
(* ('.test_markers', 'board', ...).  A file name is the triple             *)
(* <<prefix, suffix, extension>>, so that glob("*_verified.txt") is a test *)
(* on the last two and Path.stem is the first two.  A time stamp is the    *)
(* number of the run that wrote the file.                                  *)
(***************************************************************************)
EXTENDS Integers, Sequences, FiniteSets, TLC

VARIABLES
    sshFiles,     \* ~/.ssh: file name -> [exists, content (token sequence)]
    scripts,      \* repository scripts: name -> [exists, syntaxOk, content]
    hw,           \* what /proc/cpuinfo and `sudo i2cdetect -y 1` produce
    dirExists,    \* whether .test_markers exists
    files,        \* .test_markers: file name -> content, for the files present
    gitignore,    \* .gitignore: [exists, text (token sequence with "\n")]
    pc,           \* position of main()
    invoked,      \* checks main() has called in this run
    passed,       \* checks that returned True in this run
    failed,       \* checks that returned False in this run
    written,      \* files of .test_markers written during this run
    exitCode,     \* exit status of the last run (-1: none yet)
    now,          \* number of the current run, used as time stamp
    touched,      \* the inputs were changed since the last run ended
    rerun,        \* this run repeats a run that exited 0, on the same inputs
    startDir,     \* whether .test_markers existed at the start of this run
    startFiles,   \* .test_markers at the start of this run
    startGit      \* .gitignore at the start of this run / before the update

vars == <<sshFiles, scripts, hw, dirExists, files, gitignore, pc, invoked,
          passed, failed, written, exitCode, now, touched, rerun,
          startDir, startFiles, startGit>>

envVars == <<sshFiles, scripts, hw>>
histVars == <<touched, rerun, startDir, startFiles, startGit>>

(***************************************************************************)
(* Bounds                                                                  *)
(***************************************************************************)
MaxRuns == 2
MaxGitLen == 5

(***************************************************************************)
(* Generic helpers                                                         *)
(***************************************************************************)
Range(s) == {s[i] : i \in 1..Len(s)}

\* Python's `tok in text` for a token searched as a whole
Contains(text, tok) == \E i \in 1..Len(text) : text[i] = tok

SeqsUpTo(S, n) == UNION {[1..k -> S] : k \in 0..n}

Absent == [exists |-> FALSE, content |-> <<>>]
File(c) == [exists |-> TRUE, content |-> c]

(***************************************************************************)
(* File names of .test_markers, as <<prefix, suffix, extension>>           *)
(***************************************************************************)
SshMarker == <<"ssh_key", "_verified", ".txt">>
Bmp280Marker == <<"bmp280_script", "_verified", ".txt">>
NeoSliderMarker == <<"neoslider_script", "_verified", ".txt">>
HardwareMarker == <<"hardware", "_detected", ".txt">>
SummaryFile == <<"test", "_summary", ".txt">>
AllPassedMarker == <<"all_tests", "_passed", ".txt">>

\* Path.write_text on a file of .test_markers: creates or overwrites in place
WriteFile(fl, name, content) ==
    [n \in (DOMAIN fl) \cup {name} |-> IF n = name THEN content ELSE fl[n]]

\* the text of a marker: its label and datetime.now().isoformat()
MarkerText(label, t) == [text |-> label, ts |-> t]

\* what a check hands back: its return value ("True", "False", or "raise"
\* when an exception leaves the function) and the state of .test_markers
Outcome(r, d, fl, w) == [ret |-> r, dirExists |-> d, files |-> fl, written |-> w]

(***************************************************************************)
(* check_ssh_key                                                           *)
(***************************************************************************)
PubKeys == <<"id_ed25519.pub", "id_rsa.pub">>

\* index in pub_keys of the first key file that exists, 0 when none does
FirstKey(ssh) ==
    IF \E i \in 1..Len(PubKeys) : ssh[PubKeys[i]].exists
    THEN CHOOSE i \in 1..Len(PubKeys) :
            /\ ssh[PubKeys[i]].exists
            /\ \A j \in 1..(i - 1) : ~ssh[PubKeys[j]].exists
    ELSE 0

\* key_content.split()[1] raises IndexError when the key file holds fewer
\* than two fields; it is evaluated only when authorized_keys exists
SshRaises(ssh) ==
    /\ FirstKey(ssh) # 0
    /\ ssh["authorized_keys"].exists
    /\ Len(ssh[PubKeys[FirstKey(ssh)]].content) < 2

\* the key is in authorized_keys (only decides which message is printed)
KeyAuthorized(ssh) ==
    /\ FirstKey(ssh) # 0
    /\ ssh["authorized_keys"].exists
    /\ Len(ssh[PubKeys[FirstKey(ssh)]].content) >= 2
    /\ Contains(ssh["authorized_keys"].content,
                ssh[PubKeys[FirstKey(ssh)]].content[2])

\* faulty variant: the directory is created before the keys are looked for
check_ssh_key_MkdirFirst(ssh, d, fl, t) ==
    IF FirstKey(ssh) = 0 THEN Outcome("False", TRUE, fl, {})
    ELSE IF SshRaises(ssh) THEN Outcome("raise", TRUE, fl, {})
    ELSE Outcome("True", TRUE,
                 WriteFile(fl, SshMarker, MarkerText("SSH key verified", t)),
                 {SshMarker})

check_ssh_key(ssh, d, fl, t) ==
    IF FirstKey(ssh) = 0 THEN Outcome("False", d, fl, {})
    ELSE IF SshRaises(ssh) THEN Outcome("raise", d, fl, {})
    ELSE Outcome("True", TRUE,
                 WriteFile(fl, SshMarker, MarkerText("SSH key verified", t)),
                 {SshMarker})

(***************************************************************************)
(* check_bmp280_script, check_neoslider_script                             *)
(***************************************************************************)
Bmp280Required == <<"board", "adafruit_bmp280">>
NeoSliderRequired == <<"board", "adafruit_seesaw">>

\* faulty variant: one of the tokens is enough
ImportsFound_Any(content, required) ==
    \E i \in 1..Len(required) : Contains(content, required[i])

\* the loop over `required`: every token occurs in the script's text
ImportsFound(content, required) ==
    \A i \in 1..Len(required) : Contains(content, required[i])

\* faulty variant: success is returned without the marker being written
WriteScriptMarker_Skipped(d, fl, name, label, t) == Outcome("True", d, fl, {})

\* marker.write_text without mkdir: FileNotFoundError when .test_markers
\* does not exist
WriteScriptMarker(d, fl, name, label, t) ==
    IF d THEN Outcome("True", d, WriteFile(fl, name, MarkerText(label, t)), {name})
    ELSE Outcome("raise", d, fl, {})

\* faulty variant: a failing check removes the marker an earlier run left
check_bmp280_script_Unlinks(script, d, fl, t) ==
    IF ~script.exists \/ ~script.syntaxOk
       \/ ~ImportsFound(script.content, Bmp280Required)
    THEN Outcome("False", d, [n \in (DOMAIN fl) \ {Bmp280Marker} |-> fl[n]], {})
    ELSE WriteScriptMarker(d, fl, Bmp280Marker, "BMP280 script verified", t)

check_bmp280_script(script, d, fl, t) ==
    IF ~script.exists THEN Outcome("False", d, fl, {})
    ELSE IF ~script.syntaxOk THEN Outcome("False", d, fl, {})
    ELSE IF ~ImportsFound(script.content, Bmp280Required)
         THEN Outcome("False", d, fl, {})
    ELSE WriteScriptMarker(d, fl, Bmp280Marker, "BMP280 script verified", t)

check_neoslider_script(script, d, fl, t) ==
    IF ~script.exists THEN Outcome("True", d, fl, {})
    ELSE IF ~script.syntaxOk THEN Outcome("False", d, fl, {})
    ELSE IF ~ImportsFound(script.content, NeoSliderRequired)
         THEN Outcome("False", d, fl, {})
    ELSE WriteScriptMarker(d, fl, NeoSliderMarker, "NeoSlider script verified", t)

(***************************************************************************)
(* run_hardware_tests                                                      *)
(***************************************************************************)
\* "not_rpi": /proc/cpuinfo unreadable or without 'Raspberry Pi'/'Broadcom'
\* "ok": i2cdetect returned 0; "nonzero": it returned another code;
\* "not_found": FileNotFoundError; "timeout": TimeoutExpired
HwOutcomes == {"not_rpi", "ok", "nonzero", "not_found", "timeout"}

\* the marker is written inside the try block: a failing write_text
\* (.test_markers missing) is caught by `except FileNotFoundError`
run_hardware_tests(h, d, fl, t) ==
    IF h = "not_rpi" THEN Outcome("True", d, fl, {})
    ELSE IF h = "nonzero" THEN Outcome("False", d, fl, {})
    ELSE IF h = "ok" /\ d
         THEN Outcome("True", d,
                      WriteFile(fl, HardwareMarker, MarkerText("Hardware scan", t)),
                      {HardwareMarker})
    ELSE Outcome("True", d, fl, {})

(***************************************************************************)
(* update_gitignore                                                        *)
(***************************************************************************)
RECURSIVE SplitFrom(_, _, _, _)
SplitFrom(text, i, cur, acc) ==
    IF i > Len(text) THEN (IF cur = <<>> THEN acc ELSE Append(acc, cur))
    ELSE IF text[i] = "\n" THEN SplitFrom(text, i + 1, <<>>, Append(acc, cur))
    ELSE SplitFrom(text, i + 1, Append(cur, text[i]), acc)

\* str.splitlines(): a final "\n" does not open an empty last line
SplitLines(text) == SplitFrom(text, 1, <<>>, <<>>)

RECURSIVE JoinLines(_)
\* '\n'.join(lines)
JoinLines(lines) ==
    IF lines = <<>> THEN <<>>
    ELSE IF Len(lines) = 1 THEN lines[1]
    ELSE lines[1] \o <<"\n">> \o JoinLines(Tail(lines))

RECURSIVE LStrip(_)
LStrip(line) ==
    IF line # <<>> /\ Head(line) = " " THEN LStrip(Tail(line)) ELSE line

RECURSIVE RStrip(_)
RStrip(line) ==
    IF line # <<>> /\ line[Len(line)] = " "
    THEN RStrip(SubSeq(line, 1, Len(line) - 1))
    ELSE line

\* str.strip()
Strip(line) == RStrip(LStrip(line))

\* line.strip().startswith('#')
IsComment(line) == Strip(line) # <<>> /\ Strip(line)[1] = "#"

\* faulty variant: startswith('#') without strip()
ExcludesMarkers_NoStrip(line) ==
    Contains(line, ".test_markers") /\ ~(line # <<>> /\ line[1] = "#")

\* '.test_markers' in line and not line.strip().startswith('#')
ExcludesMarkers(line) == Contains(line, ".test_markers") /\ ~IsComment(line)

\* '# .test_markers/ is now allowed (created by run_tests.py)'
AllowedComment ==
    <<"#", " ", ".test_markers", "/ is now allowed (created by run_tests.py)">>

RECURSIVE FilterLines(_, _, _, _)
\* the loop over lines, with its accumulators new_lines and modified
FilterLines(lines, i, new_lines, modified) ==
    IF i > Len(lines) THEN [new_lines |-> new_lines, modified |-> modified]
    ELSE IF ExcludesMarkers(lines[i])
         THEN (IF ~modified
               THEN FilterLines(lines, i + 1, Append(new_lines, AllowedComment), TRUE)
               ELSE FilterLines(lines, i + 1, new_lines, modified))
    ELSE FilterLines(lines, i + 1, Append(new_lines, lines[i]), modified)

\* the .gitignore that update_gitignore leaves, d: .test_markers exists
update_gitignore(d, gi) ==
    IF ~d THEN gi
    ELSE IF ~gi.exists THEN gi
    ELSE LET r == FilterLines(SplitLines(gi.content), 1, <<>>, FALSE)
         IN  IF r.modified THEN File(JoinLines(r.new_lines) \o <<"\n">>) ELSE gi

(***************************************************************************)
(* create_test_summary                                                     *)
(***************************************************************************)
\* the order in which the directory hands out its entries (arbitrary)
DirOrder ==
    <<SshMarker, SummaryFile, HardwareMarker, AllPassedMarker,
      NeoSliderMarker, Bmp280Marker>>

\* the order of sorted() on the paths
PathRank(n) ==
    CASE n = AllPassedMarker -> 1
      [] n = Bmp280Marker -> 2
      [] n = HardwareMarker -> 3
      [] n = NeoSliderMarker -> 4
      [] n = SshMarker -> 5
      [] n = SummaryFile -> 6

\* list(marker_dir.glob("*" + suffix + ext))
Glob(fl, suffix, ext) ==
    SelectSeq(DirOrder, LAMBDA n : n \in DOMAIN fl /\ n[2] = suffix /\ n[3] = ext)

RECURSIVE Insert(_, _)
Insert(sorted, n) ==
    IF sorted = <<>> THEN <<n>>
    ELSE IF PathRank(n) < PathRank(Head(sorted)) THEN <<n>> \o sorted
    ELSE <<Head(sorted)>> \o Insert(Tail(sorted), n)

RECURSIVE Sorted(_)
Sorted(s) == IF s = <<>> THEN <<>> ELSE Insert(Sorted(Tail(s)), Head(s))

\* Path.stem: the name without its extension
Stem(n) == <<n[1], n[2]>>

\* faulty variant: the second pattern is forgotten
SummaryMarkers_VerifiedOnly(fl) == Glob(fl, "_verified", ".txt")

\* faulty variant: the final marker is listed too
SummaryMarkers_AlsoPassed(fl) ==
    Glob(fl, "_verified", ".txt") \o Glob(fl, "_detected", ".txt")
    \o Glob(fl, "_passed", ".txt")

\* markers = glob("*_verified.txt") + glob("*_detected.txt")
SummaryMarkers(fl) == Glob(fl, "_verified", ".txt") \o Glob(fl, "_detected", ".txt")

\* the text of test_summary.txt: 'Tests Run' and one line per sorted marker
SummaryText(fl, t) ==
    [ts |-> t,
     count |-> Len(SummaryMarkers(fl)),
     entries |-> [i \in 1..Len(SummaryMarkers(fl)) |->
                    [stem |-> Stem(Sorted(SummaryMarkers(fl))[i]),
                     text |-> fl[Sorted(SummaryMarkers(fl))[i]]]]]

\* summary_file.write_text raises FileNotFoundError without .test_markers
create_test_summary(d, fl, t) ==
    IF ~d THEN Outcome("raise", d, fl, {})
    ELSE Outcome("None", d, WriteFile(fl, SummaryFile, SummaryText(fl, t)),
                 {SummaryFile})

(***************************************************************************)
(* Inputs the runs are checked on                                          *)
(***************************************************************************)
\* a public key file, by its whitespace-separated fields
Ed25519Files == {Absent, File(<<>>), File(<<"ssh-ed25519", "AAAA">>)}
RsaFiles == {Absent, File(<<"ssh-rsa", "BBBB">>)}
AuthorizedKeysFiles == {Absent, File(<<"AAAA">>)}

SshEnvs ==
    {[n \in {"id_ed25519.pub", "id_rsa.pub", "authorized_keys"} |->
        CASE n = "id_ed25519.pub" -> e
          [] n = "id_rsa.pub" -> r
          [] n = "authorized_keys" -> a] :
     e \in Ed25519Files, r \in RsaFiles, a \in AuthorizedKeysFiles}

NoScript == [exists |-> FALSE, syntaxOk |-> FALSE, content |-> <<>>]
Script(ok, c) == [exists |-> TRUE, syntaxOk |-> ok, content |-> c]

\* a script that does not exist, does not compile, lacks an import, or is fine
ScriptFiles(lib) ==
    {NoScript, Script(FALSE, <<"board", lib>>), Script(TRUE, <<"board">>),
     Script(TRUE, <<lib>>), Script(TRUE, <<"board", lib>>)}

ScriptEnvs ==
    {[n \in {"test_bmp280.py", "test_neoslider.py"} |->
        IF n = "test_bmp280.py" THEN b ELSE s] :
     b \in ScriptFiles("adafruit_bmp280"), s \in ScriptFiles("adafruit_seesaw")}

GitTokens == {" ", "#", ".test_markers", "x", "\n"}

\* the .gitignore files the runs of main() start from
GitFiles ==
    {Absent, File(<<"x", "\n">>), File(<<".test_markers", "\n", "x">>)}

Checks == {"SSH", "BMP280", "NeoSlider", "Hardware"}

(***************************************************************************)
(* main(), one action per call it makes                                    *)
(***************************************************************************)
Init ==
    /\ sshFiles \in SshEnvs
    /\ scripts \in ScriptEnvs
    /\ hw \in HwOutcomes
    /\ dirExists \in BOOLEAN
    /\ files = << >>
    /\ gitignore \in GitFiles
    /\ pc = "idle"
    /\ invoked = {}
    /\ passed = {}
    /\ failed = {}
    /\ written = {}
    /\ exitCode = -1
    /\ now = 0
    /\ touched = FALSE
    /\ rerun = FALSE
    /\ startDir = dirExists
    /\ startFiles = << >>
    /\ startGit = gitignore

Ended == pc \in {"done", "crashed"}

\* `python3 run_tests.py`
StartRun ==
    /\ pc = "idle" \/ Ended
    /\ now < MaxRuns
    /\ pc' = "ssh"
    /\ now' = now + 1
    /\ invoked' = {}
    /\ passed' = {}
    /\ failed' = {}
    /\ written' = {}
    /\ exitCode' = -1
    /\ rerun' = (pc = "done" /\ exitCode = 0 /\ ~touched)
    /\ touched' = FALSE
    /\ startDir' = dirExists
    /\ startFiles' = files
    /\ startGit' = gitignore
    /\ UNCHANGED <<envVars, dirExists, files, gitignore>>

\* one entry of the `results` dict: the check is called and returns, or an
\* exception leaves it and main(), and the interpreter exits with status 1
RunCheck(name, out, next) ==
    /\ invoked' = invoked \cup {name}
    /\ dirExists' = out.dirExists
    /\ files' = out.files
    /\ written' = written \cup out.written
    /\ passed' = IF out.ret = "True" THEN passed \cup {name} ELSE passed
    /\ failed' = IF out.ret = "False" THEN failed \cup {name} ELSE failed
    /\ pc' = IF out.ret = "raise" THEN "crashed" ELSE next
    /\ exitCode' = IF out.ret = "raise" THEN 1 ELSE exitCode
    /\ UNCHANGED <<envVars, gitignore, now, histVars>>

CheckSsh ==
    /\ pc = "ssh"
    /\ RunCheck("SSH", check_ssh_key(sshFiles, dirExists, files, now), "bmp280")

CheckBmp280 ==
    /\ pc = "bmp280"
    /\ RunCheck("BMP280",
                check_bmp280_script(scripts["test_bmp280.py"], dirExists, files, now),
                "neoslider")

CheckNeoSlider ==
    /\ pc = "neoslider"
    /\ RunCheck("NeoSlider",
                check_neoslider_script(scripts["test_neoslider.py"], dirExists, files, now),
                "hardware")

HardwareTests ==
    /\ pc = "hardware"
    /\ RunCheck("Hardware", run_hardware_tests(hw, dirExists, files, now), "summary")

CreateSummary ==
    /\ pc = "summary"
    /\ LET out == create_test_summary(dirExists, files, now)
       IN  /\ files' = out.files
           /\ written' = written \cup out.written
           /\ pc' = IF out.ret = "raise" THEN "crashed" ELSE "final"
           /\ exitCode' = IF out.ret = "raise" THEN 1 ELSE exitCode
    /\ UNCHANGED <<envVars, dirExists, gitignore, invoked, passed, failed, now,
                   histVars>>

\* all(results.values())
all_passed == passed = Checks

\* the rest of main(): update_gitignore and the final marker when every
\* check passed, and the return value
Final ==
    /\ pc = "final"
    /\ IF all_passed
       THEN /\ gitignore' = update_gitignore(dirExists, gitignore)
            /\ IF dirExists
               THEN /\ files' = WriteFile(files, AllPassedMarker,
                                          MarkerText("All tests passed", now))
                    /\ written' = written \cup {AllPassedMarker}
                    /\ pc' = "done"
                    /\ exitCode' = 0
               ELSE /\ pc' = "crashed"
                    /\ exitCode' = 1
                    /\ UNCHANGED <<files, written>>
       ELSE /\ pc' = "done"
            /\ exitCode' = 1
            /\ UNCHANGED <<gitignore, files, written>>
    /\ UNCHANGED <<envVars, dirExists, invoked, passed, failed, now, histVars>>

(***************************************************************************)
(* Between two runs the user may change what the checks read               *)
(***************************************************************************)
EnvFrame ==
    /\ Ended
    /\ now < MaxRuns
    /\ ~touched
    /\ touched' = TRUE
    /\ UNCHANGED <<dirExists, files, gitignore, pc, invoked, passed, failed,
                   written, exitCode, now, rerun, startDir, startFiles, startGit>>

ChangeSsh ==
    /\ EnvFrame
    /\ \E e \in SshEnvs \ {sshFiles} : sshFiles' = e
    /\ UNCHANGED <<scripts, hw>>

ChangeScripts ==
    /\ EnvFrame
    /\ \E e \in ScriptEnvs \ {scripts} : scripts' = e
    /\ UNCHANGED <<sshFiles, hw>>

ChangeHardware ==
    /\ EnvFrame
    /\ \E e \in HwOutcomes \ {hw} : hw' = e
    /\ UNCHANGED <<sshFiles, scripts>>

Next ==
    \/ StartRun
    \/ CheckSsh
    \/ CheckBmp280
    \/ CheckNeoSlider
    \/ HardwareTests
    \/ CreateSummary
    \/ Final
    \/ ChangeSsh
    \/ ChangeScripts
    \/ ChangeHardware

Spec == Init /\ [][Next]_vars

(***************************************************************************)
(* update_gitignore on every .gitignore of at most MaxGitLen tokens        *)
(***************************************************************************)
InitGit ==
    /\ sshFiles \in {e \in SshEnvs : \A n \in DOMAIN e : ~e[n].exists}
    /\ scripts \in {e \in ScriptEnvs : \A n \in DOMAIN e : ~e[n].exists}
    /\ hw = "not_rpi"
    /\ dirExists \in BOOLEAN
    /\ files = << >>
    /\ gitignore \in {Absent} \cup {File(c) : c \in SeqsUpTo(GitTokens, MaxGitLen)}
    /\ pc = "idle"
    /\ invoked = {}
    /\ passed = {}
    /\ failed = {}
    /\ written = {}
    /\ exitCode = -1
    /\ now = 0
    /\ touched = FALSE
    /\ rerun = FALSE
    /\ startDir = dirExists
    /\ startFiles = << >>
    /\ startGit = gitignore

\* a call of update_gitignore()
UpdateGitignore ==
    /\ pc = "idle"
    /\ pc' = "updated"
    /\ startGit' = gitignore
    /\ gitignore' = update_gitignore(dirExists, gitignore)
    /\ UNCHANGED <<envVars, dirExists, files, invoked, passed, failed, written,
                   exitCode, now, touched, rerun, startDir, startFiles>>

NextGit == UpdateGitignore

SpecGit == InitGit /\ [][NextGit]_vars

(***************************************************************************)
(* Properties                                                              *)
(***************************************************************************)
\* the inputs are still those the last run read
InputsAsRead == ~touched

\* a file the summary's patterns select
IsCheckMarker(n) == n[2] \in {"_verified", "_detected"} /\ n[3] = ".txt"

\* the lines of test_summary.txt that name file n
EntriesOf(fl, n) ==
    {i \in 1..Len(fl[SummaryFile].entries) : fl[SummaryFile].entries[i].stem = Stem(n)}

ListedOnce(fl, n) == SummaryFile \in DOMAIN fl /\ Cardinality(EntriesOf(fl, n)) = 1

\* C1: when a run of main() has ended, all four checks were invoked, and the
\* exit code is 0 exactly when all four returned True and 1 otherwise.
C1_AllInvokedExitCode ==
    Ended => /\ invoked = Checks
             /\ exitCode \in {0, 1}
             /\ (exitCode = 0 <=> passed = Checks)

\* C2: no exception leaves a check or create_test_summary: main() never
\* ends other than by its final return.
C2_NoCheckRaises == pc # "crashed"

\* C3: after a run in which all four checks passed, test_summary.txt lists
\* exactly one entry per marker file present in .test_markers, 'Tests Run'
\* equals the number of entries, and all_tests_passed.txt exists.
C3_SummaryListsEveryMarker ==
    (pc = "done" /\ exitCode = 0) =>
        /\ \A n \in (DOMAIN files) \ {SummaryFile} : ListedOnce(files, n)
        /\ files[SummaryFile].count = Len(files[SummaryFile].entries)
        /\ AllPassedMarker \in DOMAIN files

\* C3 (amended): after a run in which all four checks passed,
\* test_summary.txt lists exactly one entry per file of .test_markers named
\* *_verified.txt or *_detected.txt, with that file's text, and nothing
\* else; 'Tests Run' equals the number of entries; all_tests_passed.txt
\* exists (and is not listed).
C3_SummaryListsCheckMarkers ==
    (pc = "done" /\ exitCode = 0) =>
        /\ SummaryFile \in DOMAIN files
        /\ \A n \in DOMAIN files : IsCheckMarker(n) => ListedOnce(files, n)
        /\ \A i \in 1..Len(files[SummaryFile].entries) :
              \E n \in DOMAIN files :
                 /\ IsCheckMarker(n)
                 /\ files[SummaryFile].entries[i].stem = Stem(n)
                 /\ files[SummaryFile].entries[i].text = files[n]
        /\ files[SummaryFile].count = Len(files[SummaryFile].entries)
        /\ AllPassedMarker \in DOMAIN files
        /\ EntriesOf(files, AllPassedMarker) = {}

C3_Witness ==
    /\ pc = "done"
    /\ exitCode = 0
    /\ files[SummaryFile].count = 4
    /\ now = 2
    /\ AllPassedMarker \in DOMAIN startFiles

\* the first token of a line that is not a blank, "" when there is none
FirstNonBlank(line) ==
    IF \E k \in 1..Len(line) : line[k] # " "
    THEN line[CHOOSE k \in 1..Len(line) :
                 line[k] # " " /\ \A j \in 1..(k - 1) : line[j] = " "]
    ELSE ""

\* a line that names .test_markers and is not a comment
Matching(line) == ".test_markers" \in Range(line) /\ FirstNonBlank(line) # "#"

MatchingLines(lines) == {i \in 1..Len(lines) : Matching(lines[i])}

FirstMatching(lines) ==
    CHOOSE i \in MatchingLines(lines) : \A j \in MatchingLines(lines) : i <= j

\* C4: with .test_markers and .gitignore present, update_gitignore replaces
\* the lines that contain '.test_markers' and are not comments by one
\* comment line where the first of them was, keeps every other line
\* unchanged and in order, and does not rewrite the file when none matches.
C4_GitignoreFiltered ==
    (pc = "updated" /\ dirExists /\ startGit.exists) =>
        LET old == SplitLines(startGit.content)
            new == SplitLines(gitignore.content)
        IN  IF MatchingLines(old) = {} THEN gitignore = startGit
            ELSE /\ gitignore.exists
                 /\ new = SubSeq(old, 1, FirstMatching(old) - 1)
                          \o <<AllowedComment>>
                          \o SelectSeq(SubSeq(old, FirstMatching(old) + 1, Len(old)),
                                       LAMBDA l : ~Matching(l))

C4_Witness ==
    /\ pc = "updated"
    /\ dirExists
    /\ startGit.exists
    /\ Cardinality(MatchingLines(SplitLines(startGit.content))) = 2
    /\ Len(SplitLines(gitignore.content)) = 2
    /\ SplitLines(gitignore.content)[1] = <<"x">>

\* the stems test_summary.txt lists, in order
SummaryStems(fl) ==
    IF SummaryFile \in DOMAIN fl
    THEN [i \in 1..Len(fl[SummaryFile].entries) |-> fl[SummaryFile].entries[i].stem]
    ELSE <<>>

\* C5: a run that repeats, on the same inputs, a run that exited 0 exits 0
\* again and leaves .test_markers with the same file names, test_summary.txt
\* with the same entries and .gitignore with the same lines; the markers it
\* writes carry the new time stamp.
C5_RerunIdempotent ==
    (Ended /\ rerun) =>
        /\ pc = "done"
        /\ exitCode = 0
        /\ DOMAIN files = DOMAIN startFiles
        /\ SummaryStems(files) = SummaryStems(startFiles)
        /\ files[SummaryFile].count = startFiles[SummaryFile].count
        /\ gitignore.exists = startGit.exists
        /\ SplitLines(gitignore.content) = SplitLines(startGit.content)
        /\ \A n \in written : files[n].ts = now /\ n \in DOMAIN startFiles

C5_Witness ==
    /\ pc = "done"
    /\ rerun
    /\ Cardinality(DOMAIN files) = 6
    /\ gitignore.exists
    /\ AllowedComment \in Range(SplitLines(gitignore.content))
    /\ files[SshMarker].ts = 2
    /\ startFiles[SshMarker].ts = 1

\* C6: whenever a candidate public key file exists, check_ssh_key writes
\* ssh_key_verified.txt and returns True, whatever the key file holds and
\* whether authorized_keys exists or contains the key.
C6_KeyFoundMarkerWritten ==
    (InputsAsRead /\ "SSH" \in invoked
       /\ (sshFiles["id_ed25519.pub"].exists \/ sshFiles["id_rsa.pub"].exists)) =>
        /\ "SSH" \in passed
        /\ SshMarker \in written

\* C7: a script check that returned True wrote its marker during that run.
C7_ScriptPassedMarkerWritten ==
    /\ "BMP280" \in passed => Bmp280Marker \in written
    /\ "NeoSlider" \in passed => NeoSliderMarker \in written

\* C7 (amended): check_bmp280_script wrote its marker whenever it returned
\* True; check_neoslider_script wrote its marker whenever it returned True
\* and test_neoslider.py exists (without the script it returns True and
\* writes nothing).
C7_ScriptPassedMarkerWrittenIfPresent ==
    /\ "BMP280" \in passed =>
          Bmp280Marker \in written /\ files[Bmp280Marker].ts = now
    /\ ("NeoSlider" \in passed /\ InputsAsRead) =>
          IF scripts["test_neoslider.py"].exists
          THEN NeoSliderMarker \in written /\ files[NeoSliderMarker].ts = now
          ELSE NeoSliderMarker \notin written

C7_Witness ==
    /\ InputsAsRead
    /\ {"BMP280", "NeoSlider"} \subseteq passed
    /\ scripts["test_neoslider.py"].exists
    /\ {Bmp280Marker, NeoSliderMarker} \subseteq written

\* a script that exists and compiles but lacks one of the tokens
LacksImport(script, tokens) ==
    /\ script.exists
    /\ script.syntaxOk
    /\ \E tok \in tokens : tok \notin Range(script.content)

\* C8: a script that exists and compiles but lacks a required import token
\* makes its check return False without writing its marker in that run.
C8_MissingImportFails ==
    /\ (InputsAsRead /\ "BMP280" \in invoked
          /\ LacksImport(scripts["test_bmp280.py"], {"board", "adafruit_bmp280"})) =>
          "BMP280" \in failed /\ Bmp280Marker \notin written
    /\ (InputsAsRead /\ "NeoSlider" \in invoked
          /\ LacksImport(scripts["test_neoslider.py"], {"board", "adafruit_seesaw"})) =>
          "NeoSlider" \in failed /\ NeoSliderMarker \notin written

C8_Witness ==
    /\ InputsAsRead
    /\ dirExists
    /\ {"BMP280", "NeoSlider"} \subseteq failed
    /\ scripts["test_bmp280.py"] = Script(TRUE, <<"board">>)
    /\ scripts["test_neoslider.py"] = Script(TRUE, <<"board">>)

\* C9: with no candidate public key file, check_ssh_key returns False and
\* leaves the file system as it was: no marker, no new .test_markers.
C9_NoKeyNoMarker ==
    (pc = "bmp280" /\ ~sshFiles["id_ed25519.pub"].exists
       /\ ~sshFiles["id_rsa.pub"].exists) =>
        /\ "SSH" \in failed
        /\ written = {}
        /\ files = startFiles
        /\ dirExists = startDir

C9_Witness ==
    /\ pc = "bmp280"
    /\ ~sshFiles["id_ed25519.pub"].exists
    /\ ~sshFiles["id_rsa.pub"].exists
    /\ sshFiles["authorized_keys"].exists
    /\ "SSH" \in failed
    /\ ~dirExists

\* C10: no step deletes a file of .test_markers, and when main() has
\* returned 1, every marker that earlier runs left in .test_markers,
\* all_tests_passed.txt included, is still there and listed in
\* test_summary.txt.
C10_MarkersKeptAndListed ==
    [][/\ DOMAIN files \subseteq DOMAIN files'
       /\ (pc' = "done" /\ exitCode' = 1) =>
            \A n \in (DOMAIN startFiles') \ {SummaryFile} :
               n \in DOMAIN files' /\ ListedOnce(files', n)]_vars

\* C10 (amended): no step deletes a file of .test_markers, and whenever
\* main() has returned, every file of .test_markers named *_verified.txt or
\* *_detected.txt is listed in test_summary.txt; all_tests_passed.txt stays
\* in .test_markers but is never listed.
C10_MarkersKeptCheckMarkersListed ==
    [][/\ DOMAIN files \subseteq DOMAIN files'
       /\ pc' = "done" =>
            /\ \A n \in DOMAIN files' : IsCheckMarker(n) => ListedOnce(files', n)
            /\ EntriesOf(files', AllPassedMarker) = {}]_vars

C10_Witness ==
    /\ pc = "done"
    /\ exitCode = 1
    /\ "BMP280" \in failed
    /\ {Bmp280Marker, AllPassedMarker} \subseteq DOMAIN startFiles
    /\ {Bmp280Marker, AllPassedMarker} \subseteq DOMAIN files
    /\ files[Bmp280Marker].ts < now
    /\ ListedOnce(files, Bmp280Marker)
====
